---- MODULE Spec2Model ----
(***************************************************************************)
(* Checkout, order lifecycle and payment settlement of the store backend:  *)
(* OrderController, PaymentController, ProductController.updateInventory   *)
(* and the Order / Product / Cart models, over a MongoDB store with        *)
(* multi-document transactions (mongoose sessions).                        *)
(*                                                                         *)
(* Every request handler is a process; each `await` on the database is one *)
(* atomic step.  Writes made with { session } are buffered in the session  *)
(* and become visible at commitTransaction; writes made without a session  *)
(* (every order.save(), product.save()) are visible at once.               *)
(***************************************************************************)
EXTENDS Integers, Sequences, FiniteSets, TLC

\* ---------------------------------------------------------------- bounds
Products == {"P1", "P2"}
Users == {"u1", "u2"}              \* accounts, each with a cart
Buyers == {"u1"}                  \* the account whose requests most specifications follow
Handlers == {1, 2}                \* request handlers that may be in flight together
Refs == {"R1", "R2"}              \* values generatePaymentReference can return
MaxCalls == 3                     \* requests served in one behaviour
MaxOrders == 2                    \* orders inserted in one behaviour
MaxQty == 3                       \* largest quantity of one cart line
InitOnHand == 5                   \* inventory.quantity of every product at start

\* ------------------------------------------------------- program constants
FreeShippingThreshold == 10000
FlatShipping == 1500
Prices == {1000, 4000}

VARIABLES
    products,   \* Product collection: inventory { quantity, reserved }, isActive, price
    carts,      \* Cart collection: the lines of each user's cart
    orders,     \* Order collection, in insertion order (_id = position)
    h,          \* per request handler: where it stands and its local variables
    session,    \* per request handler: its mongoose session and open transaction
    res,        \* the last HTTP response sent
    calls,      \* requests received so far
    released    \* history: quantity released from `reserved` per order and product

vars == <<products, carts, orders, h, session, res, calls, released>>

Max(a, b) == IF a >= b THEN a ELSE b

RECURSIVE SumSeq(_)
SumSeq(s) == IF s = <<>> THEN 0 ELSE Head(s) + SumSeq(Tail(s))

\* ------------------------------------------------------------ Product model
availableQuantity(product) == Max(0, product.quantity - product.reserved)

hasSufficientStock(product, quantity) == availableQuantity(product) >= quantity

\* Virtual field isLowStock.
isLowStock(product) == availableQuantity(product) <= product.lowStockThreshold

findLowStock_Strict(collection) ==
    { d \in DOMAIN collection :
        /\ collection[d].quantity - collection[d].reserved < collection[d].lowStockThreshold
        /\ collection[d].isActive }

\* Product.findLowStock(): $addFields availableQuantity = $subtract [quantity,
\* reserved], then $match availableQuantity <= lowStockThreshold and isActive.
findLowStock(collection) ==
    { d \in DOMAIN collection :
        /\ collection[d].quantity - collection[d].reserved <= collection[d].lowStockThreshold
        /\ collection[d].isActive }

\* product.reserveInventory(quantity) past its stock check: the two assignments
\* to this.inventory.reserved, in order, then save().
reserveInventory(product, quantity) ==
    LET added == [product EXCEPT !.reserved = @ + quantity]
    IN  [added EXCEPT !.reserved = added.reserved + quantity]

\* product.releaseInventory(quantity): the assignment, then save().
releaseInventory(product, quantity) ==
    [product EXCEPT !.reserved = Max(0, product.reserved - quantity)]

\* product.deductInventory(quantity) past its check of the quantity on hand:
\* the two assignments, then save().
deductInventory(product, quantity) ==
    [product EXCEPT !.quantity = product.quantity - quantity,
                    !.reserved = Max(0, product.reserved - quantity)]

\* ------------------------------------------------------------- Order model
NoTransactionId == "none"

NewOrder(userId, orderItems, pricing, reference) ==
    [ userId |-> userId,
      items |-> orderItems,
      pricing |-> pricing,
      status |-> "pending",
      payment |-> [ status |-> "pending", reference |-> reference,
                    transactionId |-> NoTransactionId, paidAt |-> FALSE ],
      timeline |-> <<>>,
      orderNumber |-> 0 ]

preSave_NoEntry(order, count) == [order EXCEPT !.orderNumber = count + 1]

\* pre("save") hook of a new document: count-then-format order number and the
\* initial timeline entry.
preSave(order, count) ==
    [order EXCEPT !.orderNumber = count + 1,
                  !.timeline = Append(@, [status |-> "pending", note |-> "Order created"])]

updateStatus_NoEntry(order, status, note) == [order EXCEPT !.status = status]

updateStatus(order, status, note) ==
    [order EXCEPT !.status = status,
                  !.timeline = Append(@, [status |-> status, note |-> note])]

markAsPaid(order, transactionId) ==
    [order EXCEPT !.payment.status = "completed",
                  !.payment.transactionId = transactionId,
                  !.payment.paidAt = TRUE,
                  !.status = "confirmed",
                  !.timeline = Append(@, [status |-> "confirmed", note |-> "Payment confirmed"])]

markAsFailed_NoReason(order, reason) ==
    [order EXCEPT !.payment.status = "failed",
                  !.status = "failed",
                  !.timeline = Append(@, [status |-> "failed", note |-> "Payment failed"])]

markAsFailed(order, reason) ==
    [order EXCEPT !.payment.status = "failed",
                  !.status = "failed",
                  !.timeline = Append(@, [status |-> "failed",
                                          note |-> IF reason = "" THEN "Payment failed" ELSE reason])]

canBeCancelled_Always(order) == TRUE

canBeCancelled(order) == order.status = "pending"

\* document.save() of a loaded order: only the paths modified since the load are
\* sent ($set), and pushed timeline entries are appended ($push) to whatever the
\* stored document holds now.
save_Whole(stored, loaded, modified) == modified

save(stored, loaded, modified) ==
    [stored EXCEPT
        !.status = IF modified.status # loaded.status THEN modified.status ELSE @,
        !.payment = [@ EXCEPT
            !.status = IF modified.payment.status # loaded.payment.status
                       THEN modified.payment.status ELSE @,
            !.transactionId = IF modified.payment.transactionId # loaded.payment.transactionId
                              THEN modified.payment.transactionId ELSE @,
            !.paidAt = IF modified.payment.paidAt # loaded.payment.paidAt
                       THEN modified.payment.paidAt ELSE @],
        !.timeline = @ \o SubSeq(modified.timeline, Len(loaded.timeline) + 1,
                                 Len(modified.timeline))]

\* ------------------------------------------------------ sessions (transactions)
ZeroInc == [d \in Products |-> [quantity |-> 0, reserved |-> 0]]

NoSession ==
    [ active |-> FALSE,       \* startTransaction was called
      started |-> FALSE,      \* the first operation ran: the snapshot is taken
      inc |-> ZeroInc,        \* buffered $inc per product
      written |-> {},         \* documents (products, carts) written in the transaction
      cleared |-> {},         \* carts set to { items: [] } in the transaction
      inserted |-> <<>>,      \* orders inserted in the transaction
      releasing |-> 0,        \* history: the order whose reservation it releases
      stale |-> {} ]          \* documents committed by others since the snapshot

startTransaction == [NoSession EXCEPT !.active = TRUE]

\* A transactional write of document d throws WriteConflict when another open
\* transaction has written d, or d changed after this transaction's snapshot.
WriteConflict(p, d) ==
    \/ d \in session[p].stale
    \/ \E q \in Handlers \ {p} : d \in session[q].written

\* A write without a session waits while an open transaction holds the document.
Locked(d) == \E q \in Handlers : d \in session[q].written

\* Product.findByIdAndUpdate(d, { $inc: ... }, { session })
incInSession(s, d, dq, dr) ==
    [s EXCEPT !.started = TRUE,
              !.written = @ \cup {d},
              !.inc[d] = [quantity |-> @.quantity + dq, reserved |-> @.reserved + dr]]

clearCartInSession_None(s, u) == [s EXCEPT !.started = TRUE, !.written = @ \cup {u}]

\* Cart.findOneAndUpdate({ userId }, { items: [] }, { session })
clearCartInSession(s, u) ==
    [s EXCEPT !.started = TRUE, !.written = @ \cup {u}, !.cleared = @ \cup {u}]

\* The sessions after handler p ended its transaction (commit or abort); on a
\* commit, `docs` are the documents it changed.
EndSession(p, docs) ==
    [q \in Handlers |->
        IF q = p THEN NoSession
        ELSE IF session[q].started
             THEN [session[q] EXCEPT !.stale = @ \cup docs]
             ELSE session[q]]

\* Nothing stored changes in this step.
NoWrite == UNCHANGED <<products, carts, orders, released>>

abortTransaction(p) ==
    /\ session' = EndSession(p, {})
    /\ NoWrite

Committed(p) ==
    /\ products' = [d \in Products |->
            [products[d] EXCEPT !.quantity = @ + session[p].inc[d].quantity,
                                !.reserved = @ + session[p].inc[d].reserved]]
    /\ carts' = [u \in Users |-> IF u \in session[p].cleared THEN <<>> ELSE carts[u]]
    /\ orders' = orders \o session[p].inserted
    /\ released' = IF session[p].releasing = 0 THEN released
                   ELSE [released EXCEPT ![session[p].releasing] =
                            [d \in Products |-> @[d] - session[p].inc[d].reserved]]

commitTransaction(p) ==
    /\ Committed(p)
    /\ session' = EndSession(p, session[p].written)

\* ------------------------------------------------------------ handler state
NoOrder == [status |-> "none"]

Idle ==
    [ pc |-> "idle", op |-> "none", userId |-> "none", reference |-> "none",
      input |-> "none", oid |-> 0, order |-> NoOrder, cart |-> <<>>, i |-> 0,
      orderItems |-> <<>>, subtotal |-> 0, product |-> "none", reason |-> "none" ]

\* What a request handed to the gateway's initialize endpoint.
NoSent == [reference |-> "none", amount |-> 0]

NoResponse ==
    [handler |-> 0, status |-> 0, error |-> "none", op |-> "none", lines |-> 0, oid |-> 0,
     found |-> {}, sent |-> NoSent,
     reference |-> "none", input |-> "none"]

\* The handler returns: its locals are dropped and `res`, the last response
\* sent, is recorded.  `lines` is the number of inventory updates the handler
\* had issued in its session.
Reply(p, op, reference, input, status, error) ==
    /\ h' = [h EXCEPT ![p] = Idle]
    /\ res' = [handler |-> p, status |-> status, error |-> error, op |-> op,
               lines |-> Cardinality(session[p].written \cap Products), found |-> {}, sent |-> NoSent,
               oid |-> h[p].oid, reference |-> reference, input |-> input]

Respond(p, status, error) == Reply(p, h[p].op, h[p].reference, h[p].input, status, error)

\* A request arrives and is served by the first idle handler.
Arrive(p) ==
    /\ h[p].pc = "idle"
    /\ \A q \in Handlers : q < p => h[q].pc # "idle"
    /\ calls < MaxCalls
    /\ calls' = calls + 1

\* The handler runs on to its next await.
Continue(p, locals) ==
    /\ h' = [h EXCEPT ![p] = locals]
    /\ UNCHANGED res

\* A write made without a session: every open snapshot sees the document change.
Touched(docs) ==
    [q \in Handlers |->
        IF session[q].started THEN [session[q] EXCEPT !.stale = @ \cup docs]
        ELSE session[q]]

\* Carts a buyer can have built with addToCart before the first checkout.
InitCarts ==
    { <<>>,
      <<[productId |-> "P1", quantity |-> MaxQty, price |-> 1000]>>,
      <<[productId |-> "P1", quantity |-> MaxQty - 1, price |-> 1000],
        [productId |-> "P2", quantity |-> MaxQty, price |-> 4000]>> }

\* The cart of an account outside Buyers: one line of the second product.
OtherCart == <<[productId |-> "P2", quantity |-> MaxQty, price |-> 4000]>>

InitialCarts ==
    { [u \in Users |-> IF u \in Buyers THEN cart ELSE OtherCart] : cart \in InitCarts }

TypeOK ==
    /\ \A d \in Products : products[d].quantity \in Int /\ products[d].reserved \in Int
    /\ calls \in 0..MaxCalls
    /\ Len(orders) <= MaxOrders

Init ==
    /\ products = [d \in Products |->
            [quantity |-> InitOnHand, reserved |-> 0, lowStockThreshold |-> 2,
             isActive |-> TRUE,
             price |-> IF d = "P1" THEN 1000 ELSE 4000]]
    /\ carts \in InitialCarts
    /\ orders = <<>>
    /\ h = [p \in Handlers |-> Idle]
    /\ session = [p \in Handlers |-> NoSession]
    /\ res = NoResponse
    /\ calls = 0
    /\ released = [k \in 1..MaxOrders |-> [d \in Products |-> 0]]

\* ------------------------------------------------------------ cart, catalog
CartQuantity(cart, d) ==
    SumSeq([k \in 1..Len(cart) |-> IF cart[k].productId = d THEN cart[k].quantity ELSE 0])

addItem(cart, d, quantity, price) ==
    IF \E k \in 1..Len(cart) : cart[k].productId = d
    THEN [k \in 1..Len(cart) |->
            IF cart[k].productId = d
            THEN [cart[k] EXCEPT !.quantity = @ + quantity] ELSE cart[k]]
    ELSE Append(cart, [productId |-> d, quantity |-> quantity, price |-> price])

\* res.status(200).json(...) of a request served without a transaction.
Answer(op) == res' = [NoResponse EXCEPT !.status = 200, !.op = op]

\* CartController.addToCart: the line is priced at the product's current price.
AddToCart(u, d, quantity) ==
    /\ calls < MaxCalls
    /\ products[d].isActive
    /\ hasSufficientStock(products[d], CartQuantity(carts[u], d) + quantity)
    /\ CartQuantity(carts[u], d) + quantity <= MaxQty
    /\ ~Locked(u)
    /\ carts' = [carts EXCEPT ![u] = addItem(@, d, quantity, products[d].price)]
    /\ session' = Touched({u})
    /\ calls' = calls + 1
    /\ Answer("addToCart")
    /\ UNCHANGED <<products, orders, released, h>>

\* ProductController.updateProduct with { price }.
UpdateProduct(d, price) ==
    /\ calls < MaxCalls
    /\ price # products[d].price
    /\ ~Locked(d)
    /\ products' = [products EXCEPT ![d].price = price]
    /\ session' = Touched({d})
    /\ calls' = calls + 1
    /\ Answer("updateProduct")
    /\ UNCHANGED <<carts, orders, released, h>>

\* ProductController.deactivateProduct (soft delete).
DeactivateProduct(d) ==
    /\ calls < MaxCalls
    /\ products[d].isActive
    /\ ~Locked(d)
    /\ products' = [products EXCEPT ![d].isActive = FALSE]
    /\ session' = Touched({d})
    /\ calls' = calls + 1
    /\ Answer("deactivateProduct")
    /\ UNCHANGED <<carts, orders, released, h>>

\* ------------------------------------------------------- steps of a handler
\* The handler runs to its next await; nothing stored changes.
Local(p, locals) ==
    /\ h' = [h EXCEPT ![p] = locals]
    /\ NoWrite
    /\ UNCHANGED <<session, res, calls>>

\* The handler aborts its transaction and responds.
Fail(p, status, error) ==
    /\ abortTransaction(p)
    /\ Respond(p, status, error)
    /\ UNCHANGED calls

\* A session write of document d, or the WriteConflict it throws, which the
\* handler's catch block turns into abortTransaction and the response `status`.
InSession(p, d, written, locals, status) ==
    IF WriteConflict(p, d)
    THEN Fail(p, status, "WriteConflict")
    ELSE /\ session' = [session EXCEPT ![p] = written]
         /\ h' = [h EXCEPT ![p] = locals]
         /\ NoWrite
         /\ UNCHANGED <<res, calls>>

\* order.<method>() followed by this.save(), issued without the session.
SaveOrder(p, modified) ==
    /\ orders' = [orders EXCEPT ![h[p].oid] = save(@, h[p].order, modified)]
    /\ UNCHANGED <<products, carts, released, session, calls>>

\* commitTransaction and the response.
Commit(p, status, error) ==
    /\ commitTransaction(p)
    /\ Respond(p, status, error)
    /\ UNCHANGED calls

\* ------------------------------------------------ OrderController.createOrder
Pricing_FlatOnly(subtotal) ==
    [subtotal |-> subtotal, shipping |-> FlatShipping, tax |-> 0, discount |-> 0,
     total |-> subtotal + FlatShipping]

Pricing(subtotal) ==
    LET shipping == IF subtotal >= FreeShippingThreshold THEN 0 ELSE FlatShipping
        tax == 0
        discount == 0
    IN  [subtotal |-> subtotal, shipping |-> shipping, tax |-> tax,
         discount |-> discount, total |-> subtotal + shipping + tax - discount]

DuplicateKey_NumberOnly(p, order) ==
    \/ \E k \in 1..Len(orders) : orders[k].orderNumber = order.orderNumber
    \/ \E q \in Handlers \ {p} :
          \E k \in 1..Len(session[q].inserted) :
             session[q].inserted[k].orderNumber = order.orderNumber

\* The unique indexes on payment.reference and orderNumber reject the insert
\* when a stored order, or an order inserted by another open transaction, has
\* the same key.
DuplicateKey(p, order) ==
    LET same(o) == \/ o.payment.reference = order.payment.reference
                   \/ o.orderNumber = order.orderNumber
    IN  \/ \E k \in 1..Len(orders) : same(orders[k])
        \/ \E q \in Handlers \ {p} :
              \E k \in 1..Len(session[q].inserted) : same(session[q].inserted[k])

\* startTransaction, then Cart.findOne({ userId }).populate("items.productId"),
\* a read without a session.
CreateOrder_Start(p, u) ==
    /\ Arrive(p)
    /\ IF Len(carts[u]) = 0
       THEN /\ Reply(p, "createOrder", "none", "none", 400, "EmptyCart")
            /\ UNCHANGED session
       ELSE /\ Continue(p, [Idle EXCEPT !.pc = "co_item", !.op = "createOrder",
                       !.userId = u, !.i = 1,
                       !.cart = [k \in 1..Len(carts[u]) |->
                           [quantity |-> carts[u][k].quantity,
                            price |-> carts[u][k].price,
                            productId |-> carts[u][k].productId,
                            product |-> products[carts[u][k].productId]]]])
            /\ session' = [session EXCEPT ![p] = startTransaction]
    /\ NoWrite

OrderItem_CartPrice(item) ==
    [productId |-> item.productId, price |-> item.price, quantity |-> item.quantity]

\* Create order item with snapshot: the populated product's price.
OrderItem(item) ==
    [productId |-> item.productId, price |-> item.product.price, quantity |-> item.quantity]

Reserve_NoSession(p, item, locals) ==
    /\ products' = [products EXCEPT
                       ![item.productId].reserved = @ + item.quantity]
    /\ h' = [h EXCEPT ![p] = locals]
    /\ UNCHANGED <<carts, orders, released, session, res, calls>>

\* Reserve inventory (within transaction).
Reserve(p, item, locals) ==
    InSession(p, item.productId,
              incInSession(session[p], item.productId, 0, item.quantity), locals, 500)

\* One pass of the loop over cart.items: validate the populated product, then
\* reserve and snapshot the line.
CreateOrder_Item(p) ==
    /\ h[p].pc = "co_item"
    /\ LET item == h[p].cart[h[p].i]
           product == item.product
       IN
       IF ~product.isActive
       THEN Fail(p, 400, "ProductUnavailable")
       ELSE IF ~hasSufficientStock(product, item.quantity)
       THEN Fail(p, 400, "InsufficientStock")
       ELSE Reserve(p, item,
              [h[p] EXCEPT
                  !.orderItems = Append(@, OrderItem(item)),
                  !.subtotal = @ + OrderItem(item).price * item.quantity,
                  !.i = @ + 1,
                  !.pc = IF h[p].i = Len(h[p].cart) THEN "co_create" ELSE "co_item"])

\* Pricing, payment reference and Order.create([...], { session }).
CreateOrder_Create(p) ==
    /\ h[p].pc = "co_create"
    /\ \E reference \in Refs :
         LET order == preSave(NewOrder(h[p].userId, h[p].orderItems,
                                       Pricing(h[p].subtotal), reference),
                              Len(orders))
         IN IF DuplicateKey(p, order) \/ Len(orders) >= MaxOrders
            THEN Fail(p, 500, "DuplicateKey")
            ELSE /\ session' = [session EXCEPT ![p].started = TRUE,
                                               ![p].inserted = Append(@, order)]
                 /\ h' = [h EXCEPT ![p].pc = "co_commit", ![p].order = order,
                                   ![p].reference = reference]
                 /\ NoWrite
                 /\ UNCHANGED <<res, calls>>

CreateOrder_Commit(p) ==
    /\ h[p].pc = "co_commit"
    /\ commitTransaction(p)
    /\ h' = [h EXCEPT ![p] = Idle]
    /\ res' = [handler |-> p, status |-> 201, error |-> "none", op |-> "createOrder",
               lines |-> Cardinality(session[p].written \cap Products), found |-> {}, sent |-> NoSent,
               oid |-> Len(orders) + 1, reference |-> h[p].reference,
               input |-> "none"]
    /\ UNCHANGED calls

\* createOrder requests of the accounts in users.
Checkout(p, users) ==
    \/ \E u \in users : CreateOrder_Start(p, u)
    \/ CreateOrder_Item(p)
    \/ CreateOrder_Create(p)
    \/ CreateOrder_Commit(p)

CreateOrder(p) == Checkout(p, Buyers)

\* ------------------------------------------------------------ PaystackService
PAYSTACK_SECRET_KEY == "sk_live"

\* crypto.createHmac("sha512", key).update(payload).digest("hex"): a keyed
\* digest, different for different keys and payloads.
Hmac(key, payload) == <<"sha512", key, payload>>

verifyWebhookSignature(payload, signature) == Hmac(PAYSTACK_SECRET_KEY, payload) = signature

\* The bytes of a webhook request body: one JSON value can arrive in several
\* byte forms (compact as JSON.stringify writes it, or with other spacing or
\* escapes).
RawForms == {"compact", "spaced"}

RawBody(form, event, reference, reason) == <<form, event, reference, reason>>

\* express.json(): the parsed body keeps the value and drops the byte form.
parse(raw) == [event |-> raw[2], reference |-> raw[3], gateway_response |-> raw[4]]

\* JSON.stringify(req.body): the compact form of the value.
stringify(body) == RawBody("compact", body.event, body.reference, body.gateway_response)

VerifyResults == {"unverified", "success", "failed", "abandoned"}
WebhookEvents ==
    {"charge.success", "charge.failed", "transfer.success", "transfer.failed",
     "invoice.create"}

\* The events the switch on event.event hands to a settlement handler.
SettlementEvents_All == WebhookEvents

SettlementEvents == {"charge.success", "charge.failed"}
GatewayId == "T1"
\* data.gateway_response of a charge that did not succeed; the gateway may
\* send none.
GatewayResponses == {"Declined", ""}

\* Order.findOne({ "payment.reference": reference }): 0 when there is none.
FindByReference(reference) ==
    IF \E k \in 1..Len(orders) : orders[k].payment.reference = reference
    THEN CHOOSE k \in 1..Len(orders) : orders[k].payment.reference = reference
    ELSE 0

Deduct_ReservedOnly(p, item, locals, status) ==
    InSession(p, item.productId,
              incInSession(session[p], item.productId, 0, 0 - item.quantity),
              locals, status)

\* Deduct inventory and release reservation, for one order line.
Deduct(p, item, locals, status) ==
    InSession(p, item.productId,
              incInSession(session[p], item.productId, 0 - item.quantity, 0 - item.quantity),
              locals, status)

Release_Twice(p, item, locals, status) ==
    InSession(p, item.productId,
              [incInSession(session[p], item.productId, 0, 0 - 2 * item.quantity)
                  EXCEPT !.releasing = h[p].oid],
              locals, status)

\* Release inventory reservation, for one order line.
Release(p, item, locals, status) ==
    InSession(p, item.productId,
              [incInSession(session[p], item.productId, 0, 0 - item.quantity)
                  EXCEPT !.releasing = h[p].oid],
              locals, status)

\* Clear user's cart.
ClearCart(p, locals, status) ==
    InSession(p, h[p].order.userId,
              clearCartInSession(session[p], h[p].order.userId), locals, status)

\* The next position of a loop over order.items.
NextItem(p, again, done) ==
    [h[p] EXCEPT !.i = @ + 1,
                 !.pc = IF h[p].i < Len(h[p].order.items) THEN again ELSE done]

\* --------------------------------------------- PaymentController.verifyPayment
\* "Check if already processed"
verifyAlreadyProcessed(order) == order.payment.status = "completed"

\* PaystackService.verifyPayment, the lookup by reference and the guard.
VerifyPayment_Start(p, reference, result, reason) ==
    /\ Arrive(p)
    /\ LET k == FindByReference(reference) IN
       IF result = "unverified"
       THEN Reply(p, "verifyPayment", reference, result, 400, "VerificationFailed")
       ELSE IF k = 0
       THEN Reply(p, "verifyPayment", reference, result, 404, "OrderNotFound")
       ELSE IF verifyAlreadyProcessed(orders[k])
       THEN Reply(p, "verifyPayment", reference, result, 200, "AlreadyProcessed")
       ELSE Continue(p, [Idle EXCEPT !.pc = "vp_mark", !.op = "verifyPayment",
                           !.reference = reference, !.input = result,
                           !.reason = IF result = "success" THEN "none" ELSE reason,
                           !.oid = k, !.order = orders[k]])
    /\ session' = [session EXCEPT ![p] =
            IF h'[p].pc = "idle" THEN NoSession ELSE startTransaction]
    /\ NoWrite

VerifyPayment_Mark(p) ==
    /\ h[p].pc = "vp_mark"
    /\ LET modified == IF h[p].input = "success"
                       THEN markAsPaid(h[p].order, GatewayId)
                       ELSE markAsFailed(h[p].order, h[p].reason)
       IN /\ SaveOrder(p, modified)
          /\ h' = [h EXCEPT ![p].order = modified, ![p].i = 1, ![p].pc = "vp_item"]
    /\ UNCHANGED res

VerifyPayment_Item_FailedOnly(p) ==
    /\ h[p].pc = "vp_item"
    /\ LET item == h[p].order.items[h[p].i] IN
       IF h[p].input = "success"
       THEN Deduct(p, item, NextItem(p, "vp_item", "vp_cart"), 500)
       ELSE IF h[p].input = "failed"
       THEN Release(p, item, NextItem(p, "vp_item", "vp_commit"), 500)
       ELSE Local(p, NextItem(p, "vp_item", "vp_commit"))

VerifyPayment_Item(p) ==
    /\ h[p].pc = "vp_item"
    /\ LET item == h[p].order.items[h[p].i] IN
       IF h[p].input = "success"
       THEN Deduct(p, item, NextItem(p, "vp_item", "vp_cart"), 500)
       ELSE Release(p, item, NextItem(p, "vp_item", "vp_commit"), 500)

VerifyPayment_Cart(p) ==
    /\ h[p].pc = "vp_cart"
    /\ ClearCart(p, [h[p] EXCEPT !.pc = "vp_commit"], 500)

VerifyPayment_Commit(p) ==
    /\ h[p].pc = "vp_commit"
    /\ IF h[p].input = "success"
       THEN Commit(p, 200, "none")
       ELSE Commit(p, 400, "PaymentFailed")

VerifyPayment(p, results, reasons) ==
    \/ \E reference \in Refs, result \in results, reason \in reasons :
          VerifyPayment_Start(p, reference, result, reason)
    \/ VerifyPayment_Mark(p)
    \/ VerifyPayment_Item(p)
    \/ VerifyPayment_Cart(p)
    \/ VerifyPayment_Commit(p)

\* --------------------------------------------- PaymentController.handleWebhook
successAlreadyProcessed_Never(order) == FALSE

\* handleSuccessfulPayment: "Skip if already processed"
successAlreadyProcessed(order) == order.payment.status = "completed"

\* handleFailedPayment: "Skip if already failed"
failureAlreadyProcessed(order) == order.payment.status = "failed"

\* The signature check, the switch on event.event, and the lookup and
\* already-processed guard of handleSuccessfulPayment / handleFailedPayment.
\* A handler that returns early still commits (nothing) and answers 200.
HandleWebhook_Receive(p, raw, signature) ==
    /\ LET body == parse(raw)
           payload == stringify(body)
           event == body.event
           reference == body.reference
           reason == body.gateway_response
           k == FindByReference(reference)
       IN
       IF ~verifyWebhookSignature(payload, signature)
       THEN Reply(p, "handleWebhook", reference, event, 401, "InvalidSignature")
       ELSE IF event \notin SettlementEvents
       THEN Reply(p, "handleWebhook", reference, event, 200, "Ignored")
       ELSE IF k = 0
       THEN Reply(p, "handleWebhook", reference, event, 200, "OrderNotFound")
       ELSE IF event = "charge.success" /\ successAlreadyProcessed(orders[k])
       THEN Reply(p, "handleWebhook", reference, event, 200, "AlreadyProcessed")
       ELSE IF event = "charge.failed" /\ failureAlreadyProcessed(orders[k])
       THEN Reply(p, "handleWebhook", reference, event, 200, "AlreadyFailed")
       ELSE Continue(p, [Idle EXCEPT !.pc = "wh_mark", !.op = "handleWebhook",
                           !.reference = reference, !.input = event,
                           !.reason = IF event = "charge.failed" THEN reason ELSE "none",
                           !.oid = k, !.order = orders[k]])
    /\ session' = [session EXCEPT ![p] =
            IF h'[p].pc = "idle" THEN NoSession ELSE startTransaction]
    /\ NoWrite

HandleWebhook_Start(p, raw, signature) ==
    /\ Arrive(p)
    /\ HandleWebhook_Receive(p, raw, signature)

\* The gateway delivers charge.success for the reference of a stored order
\* once more, with its signature; it does so as often as it likes.
Redeliver(p, reference) ==
    /\ h[p].pc = "idle"
    /\ \A q \in Handlers : q < p => h[q].pc # "idle"
    /\ FindByReference(reference) # 0
    /\ LET raw == RawBody("compact", "charge.success", reference, "Successful")
       IN HandleWebhook_Receive(p, raw, Hmac(PAYSTACK_SECRET_KEY, raw))
    /\ UNCHANGED calls

HandleWebhook_Mark(p) ==
    /\ h[p].pc = "wh_mark"
    /\ LET modified == IF h[p].input = "charge.success"
                       THEN markAsPaid(h[p].order, GatewayId)
                       ELSE markAsFailed(h[p].order, h[p].reason)
       IN /\ SaveOrder(p, modified)
          /\ h' = [h EXCEPT ![p].order = modified, ![p].i = 1, ![p].pc = "wh_item"]
    /\ UNCHANGED res

\* Errors thrown inside the handler are caught: abortTransaction, still 200.
HandleWebhook_Item(p) ==
    /\ h[p].pc = "wh_item"
    /\ LET item == h[p].order.items[h[p].i] IN
       IF h[p].input = "charge.success"
       THEN Deduct(p, item, NextItem(p, "wh_item", "wh_cart"), 200)
       ELSE Release(p, item, NextItem(p, "wh_item", "wh_commit"), 200)

HandleWebhook_Cart(p) ==
    /\ h[p].pc = "wh_cart"
    /\ ClearCart(p, [h[p] EXCEPT !.pc = "wh_commit"], 200)

HandleWebhook_Commit(p) ==
    /\ h[p].pc = "wh_commit"
    /\ Commit(p, 200, "none")

\* Signatures a request can carry: the gateway's signature of the bytes sent,
\* its signature of the same value in compact form, one made with another key,
\* and the gateway's signature of a different body.
Signatures(raw) ==
    { Hmac(PAYSTACK_SECRET_KEY, raw),
      Hmac(PAYSTACK_SECRET_KEY, stringify(parse(raw))),
      Hmac("sk_forged", raw),
      Hmac(PAYSTACK_SECRET_KEY, RawBody("compact", "charge.failed", "R0", "")) }

\* data.gateway_response of an event: a failure reason on charge.failed.
EventResponses(event, reasons) ==
    IF event = "charge.failed" THEN reasons ELSE {"Successful"}

WebhookBodies(forms, events, reasons) ==
    UNION { { RawBody(form, event, reference, reason) :
                form \in forms, reference \in Refs,
                reason \in EventResponses(event, reasons) } : event \in events }

AllWebhookBodies == WebhookBodies(RawForms, WebhookEvents, GatewayResponses)

HandleWebhook(p, bodies) ==
    \/ \E raw \in bodies :
          \E signature \in Signatures(raw) : HandleWebhook_Start(p, raw, signature)
    \/ HandleWebhook_Mark(p)
    \/ HandleWebhook_Item(p)
    \/ HandleWebhook_Cart(p)
    \/ HandleWebhook_Commit(p)

\* ------------------------------------------------ OrderController.cancelOrder
\* Order.findOne({ _id: orderId, userId }): 0 when there is none.
FindOwned(orderId, userId) ==
    IF orderId \in 1..Len(orders) /\ orders[orderId].userId = userId THEN orderId ELSE 0

CancelOrder_Start(p, u, orderId) ==
    /\ Arrive(p)
    /\ LET k == FindOwned(orderId, u) IN
       IF k = 0
       THEN Reply(p, "cancelOrder", "none", orderId, 404, "OrderNotFound")
       ELSE IF ~canBeCancelled(orders[k])
       THEN Reply(p, "cancelOrder", "none", orderId, 400, "InvalidStateTransition")
       ELSE Continue(p, [Idle EXCEPT !.pc = "cn_item", !.op = "cancelOrder",
                           !.userId = u, !.input = orderId, !.oid = k,
                           !.order = orders[k], !.i = 1])
    /\ session' = [session EXCEPT ![p] =
            IF h'[p].pc = "idle" THEN NoSession ELSE startTransaction]
    /\ NoWrite

\* Release reserved inventory.
CancelOrder_Item(p) ==
    /\ h[p].pc = "cn_item"
    /\ Release(p, h[p].order.items[h[p].i], NextItem(p, "cn_item", "cn_save"), 500)

\* order.cancelOrder(reason): Order.methods.cancelOrder saves, or throws when
\* the loaded order is not pending.
CancelOrder_Save(p) ==
    /\ h[p].pc = "cn_save"
    /\ IF h[p].order.status = "pending"
       THEN LET modified == updateStatus(h[p].order, "cancelled", "Order cancelled by user")
            IN /\ SaveOrder(p, modified)
               /\ h' = [h EXCEPT ![p].order = modified, ![p].pc = "cn_commit"]
               /\ UNCHANGED res
       ELSE Fail(p, 500, "CannotCancel")

CancelOrder_Commit(p) ==
    /\ h[p].pc = "cn_commit"
    /\ Commit(p, 200, "none")

CancelOrder(p) ==
    \/ \E u \in Buyers, orderId \in 1..MaxOrders : CancelOrder_Start(p, u, orderId)
    \/ CancelOrder_Item(p)
    \/ CancelOrder_Save(p)
    \/ CancelOrder_Commit(p)

\* ------------------------------------------ OrderController.updateOrderStatus
AdminStatuses ==
    {"pending", "confirmed", "processing", "shipped", "delivered", "cancelled", "failed"}

UpdateOrderStatus_Start(p, orderId, status) ==
    /\ Arrive(p)
    /\ IF orderId \notin 1..Len(orders)
       THEN Reply(p, "updateOrderStatus", "none", status, 404, "OrderNotFound")
       ELSE Continue(p, [Idle EXCEPT !.pc = "us_save", !.op = "updateOrderStatus",
                           !.oid = orderId, !.order = orders[orderId], !.input = status])
    /\ NoWrite
    /\ UNCHANGED session

UpdateOrderStatus_Save(p) ==
    /\ h[p].pc = "us_save"
    /\ SaveOrder(p, updateStatus(h[p].order, h[p].input, "Updated by admin"))
    /\ Respond(p, 200, "none")

UpdateOrderStatus(p) ==
    \/ \E orderId \in 1..MaxOrders, status \in AdminStatuses :
          UpdateOrderStatus_Start(p, orderId, status)
    \/ UpdateOrderStatus_Save(p)

\* ------------------------------------------ PaymentController.initializePayment
\* PaystackService.nairaToKobo
nairaToKobo(amount) == amount * 100

Callers == Users \cup {"none"}      \* "none": the request carries no user

InitializePayment_Start_NoStatusCheck(p, u, orderId) ==
    /\ Arrive(p)
    /\ LET k == FindOwned(orderId, u) IN
       IF u = "none"
       THEN Reply(p, "initializePayment", "none", orderId, 401, "NotAuthenticated")
       ELSE IF k = 0
       THEN Reply(p, "initializePayment", "none", orderId, 404, "OrderNotFound")
       ELSE IF orders[k].payment.status = "completed"
       THEN Reply(p, "initializePayment", "none", orderId, 400, "AlreadyPaid")
       ELSE Continue(p, [Idle EXCEPT !.pc = "ip_call", !.op = "initializePayment",
                           !.userId = u, !.input = orderId, !.oid = k,
                           !.order = orders[k]])
    /\ NoWrite
    /\ UNCHANGED session

\* The authentication check, Order.findOne({ _id: orderId, userId }) and the
\* two guards.
InitializePayment_Start(p, u, orderId) ==
    /\ Arrive(p)
    /\ LET k == FindOwned(orderId, u) IN
       IF u = "none"
       THEN Reply(p, "initializePayment", "none", orderId, 401, "NotAuthenticated")
       ELSE IF k = 0
       THEN Reply(p, "initializePayment", "none", orderId, 404, "OrderNotFound")
       ELSE IF orders[k].payment.status = "completed"
       THEN Reply(p, "initializePayment", "none", orderId, 400, "AlreadyPaid")
       ELSE IF orders[k].status \in {"cancelled", "failed"}
       THEN Reply(p, "initializePayment", "none", orderId, 400, "CannotPay")
       ELSE Continue(p, [Idle EXCEPT !.pc = "ip_call", !.op = "initializePayment",
                           !.userId = u, !.input = orderId, !.oid = k,
                           !.order = orders[k]])
    /\ NoWrite
    /\ UNCHANGED session

\* PaystackService.initializePayment(email, total, reference, metadata): the
\* gateway answers (200) or the call throws (500).
InitializePayment_Call(p, answered) ==
    /\ h[p].pc = "ip_call"
    /\ h' = [h EXCEPT ![p] = Idle]
    /\ res' = [NoResponse EXCEPT
                 !.handler = p, !.op = "initializePayment",
                 !.status = IF answered THEN 200 ELSE 500,
                 !.error = IF answered THEN "none" ELSE "GatewayError",
                 !.oid = h[p].oid, !.input = h[p].input,
                 !.reference = h[p].order.payment.reference,
                 !.sent = [reference |-> h[p].order.payment.reference,
                           amount |-> nairaToKobo(h[p].order.pricing.total)]]
    /\ NoWrite
    /\ UNCHANGED <<session, calls>>

InitializePayment(p) ==
    \/ \E u \in Callers, orderId \in 1..MaxOrders : InitializePayment_Start(p, u, orderId)
    \/ \E answered \in BOOLEAN : InitializePayment_Call(p, answered)

\* --------------------------------------------- PaymentController.initiateRefund
InitiateRefund_Start(p, orderId) ==
    /\ Arrive(p)
    /\ IF orderId \notin 1..Len(orders)
       THEN Reply(p, "initiateRefund", "none", "none", 404, "OrderNotFound")
       ELSE IF orders[orderId].payment.status # "completed"
       THEN Reply(p, "initiateRefund", "none", "none", 400, "CannotRefundUnpaid")
       ELSE Continue(p, [Idle EXCEPT !.pc = "rf_refund", !.op = "initiateRefund",
                           !.oid = orderId, !.order = orders[orderId]])
    /\ NoWrite
    /\ UNCHANGED session

\* PaystackService.initiateRefund resolves (refunded) or rejects (manual).
InitiateRefund_Refund(p, refunded) ==
    /\ h[p].pc = "rf_refund"
    /\ IF refunded
       THEN /\ SaveOrder(p, updateStatus([h[p].order EXCEPT !.payment.status = "refunded"],
                                         "cancelled", "Refunded: reason"))
            /\ Respond(p, 200, "none")
       ELSE /\ Respond(p, 200, "ManualRefund")
            /\ NoWrite
            /\ UNCHANGED <<session, calls>>

InitiateRefund(p) ==
    \/ \E orderId \in 1..MaxOrders : InitiateRefund_Start(p, orderId)
    \/ \E refunded \in BOOLEAN : InitiateRefund_Refund(p, refunded)

\* ------------------------------------------ ProductController.updateInventory
InventoryDeltas == {0 - MaxQty, 1}

\* Product.findById(id)
UpdateInventory_Start(p, d, quantity) ==
    /\ Arrive(p)
    /\ Continue(p, [Idle EXCEPT !.pc = "ui_save", !.op = "updateInventory",
                      !.product = d, !.input = quantity, !.cart = <<products[d]>>])
    /\ NoWrite
    /\ UNCHANGED session

\* product.inventory.quantity += quantity; product.save() validates min: 0 and
\* sets the one modified path.
UpdateInventory_Save(p) ==
    /\ h[p].pc = "ui_save"
    /\ LET d == h[p].product
           quantity == h[p].cart[1].quantity + h[p].input
       IN IF quantity < 0
          THEN /\ Respond(p, 500, "ValidationError")
               /\ NoWrite
               /\ UNCHANGED session
          ELSE /\ ~Locked(d)
               /\ products' = [products EXCEPT ![d].quantity = quantity]
               /\ session' = Touched({d})
               /\ Respond(p, 200, "none")
               /\ UNCHANGED <<carts, orders, released>>
    /\ UNCHANGED calls

UpdateInventory(p) ==
    \/ \E d \in Products, quantity \in InventoryDeltas : UpdateInventory_Start(p, d, quantity)
    \/ UpdateInventory_Save(p)

\* ------------------------------------------------ Product.reserveInventory
\* A caller loads product d and calls product.reserveInventory(quantity): the
\* method throws when the stock is insufficient, otherwise it saves the
\* document without a session.  No controller calls the method.
ReserveInventory(d, quantity) ==
    /\ calls < MaxCalls
    /\ calls' = calls + 1
    /\ IF ~hasSufficientStock(products[d], quantity)
       THEN /\ res' = [NoResponse EXCEPT !.op = "reserveInventory", !.input = d,
                                         !.error = "InsufficientStock"]
            /\ NoWrite
            /\ UNCHANGED session
       ELSE /\ ~Locked(d)
            /\ products' = [products EXCEPT ![d] = reserveInventory(@, quantity)]
            /\ session' = Touched({d})
            /\ res' = [NoResponse EXCEPT !.op = "reserveInventory", !.input = d]
            /\ UNCHANGED <<carts, orders, released>>
    /\ UNCHANGED h

\* product.releaseInventory(quantity) on a freshly loaded product d.
ReleaseInventory(d, quantity) ==
    /\ calls < MaxCalls
    /\ calls' = calls + 1
    /\ ~Locked(d)
    /\ products' = [products EXCEPT ![d] = releaseInventory(@, quantity)]
    /\ session' = Touched({d})
    /\ res' = [NoResponse EXCEPT !.op = "releaseInventory", !.input = d]
    /\ UNCHANGED <<carts, orders, released, h>>

\* product.deductInventory(quantity) on a freshly loaded product d: the method
\* throws when the quantity on hand is too small.
DeductInventory(d, quantity) ==
    /\ calls < MaxCalls
    /\ calls' = calls + 1
    /\ IF products[d].quantity < quantity
       THEN /\ res' = [NoResponse EXCEPT !.op = "deductInventory", !.input = d,
                                         !.error = "InsufficientOnHand"]
            /\ NoWrite
            /\ UNCHANGED session
       ELSE /\ ~Locked(d)
            /\ products' = [products EXCEPT ![d] = deductInventory(@, quantity)]
            /\ session' = Touched({d})
            /\ res' = [NoResponse EXCEPT !.op = "deductInventory", !.input = d]
            /\ UNCHANGED <<carts, orders, released>>
    /\ UNCHANGED h

\* Product.findLowStock(), a read of the Product collection.
FindLowStock ==
    /\ calls < MaxCalls
    /\ calls' = calls + 1
    /\ res' = [NoResponse EXCEPT !.op = "findLowStock", !.status = 200,
                                 !.found = findLowStock(products)]
    /\ NoWrite
    /\ UNCHANGED <<h, session>>

\* ------------------------------------------------------------ specifications
Catalog ==
    \/ \E u \in Buyers, d \in Products, n \in 1..MaxQty : AddToCart(u, d, n)
    \/ \E d \in Products, price \in Prices : UpdateProduct(d, price)
    \/ \E d \in Products : DeactivateProduct(d)

\* Checkout only: concurrent createOrder requests over a changing catalog.
NextCheckout == Catalog \/ \E p \in Handlers : CreateOrder(p)

SpecCheckout == Init /\ [][NextCheckout]_vars

\* Checkout and settlement: verify calls with every result and webhooks of
\* every kind, as the gateway sends them.
NextSettle ==
    \E p \in Handlers :
        \/ CreateOrder(p)
        \/ VerifyPayment(p, VerifyResults, {"Declined"})
        \/ HandleWebhook(p, WebhookBodies({"compact"}, WebhookEvents \ {"transfer.failed"},
                                          {"Declined"}))

SpecSettle == Init /\ [][NextSettle]_vars

\* Checkout and successful payments only: verify calls and charge.success
\* webhooks, which may overlap.
NextRace ==
    \E p \in Handlers :
        \/ CreateOrder(p)
        \/ VerifyPayment(p, {"success"}, {""})
        \/ HandleWebhook(p, WebhookBodies({"compact"}, {"charge.success"}, {""}))

SpecRace == Init /\ [][NextRace]_vars

\* Checkout and payments that succeed or fail, with and without a gateway
\* reason for the failure.
NextFail ==
    \E p \in Handlers :
        \/ CreateOrder(p)
        \/ VerifyPayment(p, {"success", "failed"}, GatewayResponses)
        \/ HandleWebhook(p, WebhookBodies({"compact"}, {"charge.success", "charge.failed"},
                                          GatewayResponses))

SpecFail == Init /\ [][NextFail]_vars

\* Checkout and webhooks: every event type, byte form and signature.
NextWebhook ==
    \E p \in Handlers :
        \/ CreateOrder(p)
        \/ HandleWebhook(p, AllWebhookBodies)

SpecWebhook == Init /\ [][NextWebhook]_vars

\* Checkout, cancellation and the admin's status updates.
NextCancel ==
    \E p \in Handlers :
        \/ CreateOrder(p)
        \/ CancelOrder(p)
        \/ UpdateOrderStatus(p)

SpecCancel == Init /\ [][NextCancel]_vars

\* Checkout by every account, so that orders for different products are
\* created side by side.
NextOrderNumber == \E p \in Handlers : Checkout(p, Users)

SpecOrderNumber == Init /\ [][NextOrderNumber]_vars

\* Checkout, successful payments and the admin's refunds.
NextRefund ==
    \E p \in Handlers :
        \/ CreateOrder(p)
        \/ VerifyPayment(p, {"success"}, {""})
        \/ InitiateRefund(p)

SpecRefund == Init /\ [][NextRefund]_vars

\* The checkout and settlement core: checkout, payments that succeed or fail,
\* cancellation and refunds.
NextCore ==
    \E p \in Handlers :
        \/ CreateOrder(p)
        \/ VerifyPayment(p, {"success", "failed"}, {"Declined"})
        \/ HandleWebhook(p, WebhookBodies({"compact"}, {"charge.success", "charge.failed"},
                                          {"Declined"}))
        \/ CancelOrder(p)
        \/ InitiateRefund(p)

SpecCore == Init /\ [][NextCore]_vars

\* Two checkouts of one buyer have committed and nothing else has happened: two
\* pending orders, the first for two units of P1, the second for two units of
\* P1 or for a line of P2, their quantities reserved, the cart still filled.
PendingOrders ==
    { <<preSave(NewOrder(u, <<[productId |-> "P1", price |-> 1000, quantity |-> 2]>>,
                         Pricing(2000), "R1"), 0),
        preSave(NewOrder(u, <<line>>, Pricing(line.price * line.quantity), "R2"), 1)>> :
        u \in Buyers,
        line \in { [productId |-> "P1", price |-> 1000, quantity |-> 2],
                   [productId |-> "P2", price |-> 4000, quantity |-> MaxQty] } }

InitPending ==
    /\ orders \in PendingOrders
    /\ products = [d \in Products |->
            [quantity |-> InitOnHand,
             reserved |-> SumSeq([k \in 1..Len(orders) |->
                            SumSeq([i \in 1..Len(orders[k].items) |->
                               IF orders[k].items[i].productId = d
                               THEN orders[k].items[i].quantity ELSE 0])]),
             lowStockThreshold |-> 2, isActive |-> TRUE,
             price |-> IF d = "P1" THEN 1000 ELSE 4000]]
    /\ carts = [u \in Users |->
            IF u \in Buyers
            THEN <<[productId |-> orders[2].items[1].productId,
                    quantity |-> orders[2].items[1].quantity,
                    price |-> orders[2].items[1].price]>>
            ELSE OtherCart]
    /\ h = [p \in Handlers |-> Idle]
    /\ session = [p \in Handlers |-> NoSession]
    /\ res = NoResponse
    /\ calls = 0
    /\ released = [k \in 1..MaxOrders |-> [d \in Products |-> 0]]

\* Settlements and cancellations of the two pending orders.
NextPending ==
    \E p \in Handlers :
        \/ VerifyPayment(p, {"success", "failed"}, {"Declined"})
        \/ HandleWebhook(p, WebhookBodies({"compact"}, {"charge.success", "charge.failed"},
                                          {"Declined"}))
        \/ CancelOrder(p)

SpecPending == InitPending /\ [][NextPending]_vars

\* Stock levels a product can have: updateInventory and earlier reservations
\* move quantity and reserved independently.
InitInventory ==
    /\ products \in
          { [d \in Products |->
                [quantity |-> IF d = "P1" THEN quantity ELSE InitOnHand,
                 reserved |-> IF d = "P1" THEN reserved ELSE 0,
                 lowStockThreshold |-> 2,
                 isActive |-> TRUE,
                 price |-> IF d = "P1" THEN 1000 ELSE 4000]] :
              quantity \in 0..InitOnHand, reserved \in 0..InitOnHand }
    /\ carts \in InitialCarts
    /\ orders = <<>>
    /\ h = [p \in Handlers |-> Idle]
    /\ session = [p \in Handlers |-> NoSession]
    /\ res = NoResponse
    /\ calls = 0
    /\ released = [k \in 1..MaxOrders |-> [d \in Products |-> 0]]

\* The Product model's inventory methods, and checkout's own reservation.
NextInventory ==
    \/ \E d \in Products, quantity \in 1..MaxQty :
          \/ ReserveInventory(d, quantity)
          \/ ReleaseInventory(d, quantity)
          \/ DeductInventory(d, quantity)
    \/ \E p \in Handlers : CreateOrder(p)

SpecInventory == InitInventory /\ [][NextInventory]_vars

\* A catalog whose first product is at any stock level, active or not.
InitLowStock ==
    /\ products \in
          { [d \in Products |->
                [quantity |-> IF d = "P1" THEN quantity ELSE InitOnHand,
                 reserved |-> IF d = "P1" THEN reserved ELSE 0,
                 lowStockThreshold |-> 2,
                 isActive |-> IF d = "P1" THEN isActive ELSE TRUE,
                 price |-> IF d = "P1" THEN 1000 ELSE 4000]] :
              quantity \in 0..InitOnHand, reserved \in 0..InitOnHand,
              isActive \in BOOLEAN }
    /\ carts \in InitialCarts
    /\ orders = <<>>
    /\ h = [p \in Handlers |-> Idle]
    /\ session = [p \in Handlers |-> NoSession]
    /\ res = NoResponse
    /\ calls = 0
    /\ released = [k \in 1..MaxOrders |-> [d \in Products |-> 0]]

\* The low-stock query between calls of the inventory methods.
NextLowStock ==
    \/ FindLowStock
    \/ \E d \in Products, quantity \in 1..MaxQty :
          \/ ReleaseInventory(d, quantity)
          \/ DeductInventory(d, quantity)

SpecLowStock == InitLowStock /\ [][NextLowStock]_vars

\* Every operation a route reaches.
\* Checkout, payments that succeed or fail, refunds and the admin's status
\* updates.
NextAdmin ==
    \E p \in Handlers :
        \/ CreateOrder(p)
        \/ VerifyPayment(p, {"success", "failed"}, {"Declined"})
        \/ InitiateRefund(p)
        \/ UpdateOrderStatus(p)

SpecAdmin == Init /\ [][NextAdmin]_vars

\* A checkout and its successful payment have committed: one order, paid and
\* confirmed, its two units of P1 deducted, the buyer's cart cleared.
InitPaid ==
    /\ orders \in { <<markAsPaid(pending[1], GatewayId)>> : pending \in PendingOrders }
    /\ products = [d \in Products |->
            [quantity |-> InitOnHand -
                            SumSeq([i \in 1..Len(orders[1].items) |->
                               IF orders[1].items[i].productId = d
                               THEN orders[1].items[i].quantity ELSE 0]),
             reserved |-> 0,
             lowStockThreshold |-> 2, isActive |-> TRUE,
             price |-> IF d = "P1" THEN 1000 ELSE 4000]]
    /\ carts = [u \in Users |-> IF u \in Buyers THEN <<>> ELSE OtherCart]
    /\ h = [p \in Handlers |-> Idle]
    /\ session = [p \in Handlers |-> NoSession]
    /\ res = NoResponse
    /\ calls = 0
    /\ released = [k \in 1..MaxOrders |-> [d \in Products |-> 0]]

\* The admin's requests about the paid order: refunds and status updates.
NextPaid ==
    \E p \in Handlers :
        \/ InitiateRefund(p)
        \/ UpdateOrderStatus(p)

SpecPaid == InitPaid /\ [][NextPaid]_vars

\* Checkout, payment initialization, payments that succeed or fail, and
\* cancellation.
NextPay ==
    \E p \in Handlers :
        \/ CreateOrder(p)
        \/ InitializePayment(p)
        \/ VerifyPayment(p, {"success", "failed"}, {"Declined"})
        \/ CancelOrder(p)

SpecPay == Init /\ [][NextPay]_vars

\* At-least-once delivery: checkouts, and charge.success webhooks the gateway
\* delivers again and again for every stored order. A handler that has taken a
\* request runs on to its response; every delivery that stays possible is
\* eventually made.
HandlerStep(p) ==
    \/ CreateOrder_Item(p) \/ CreateOrder_Create(p) \/ CreateOrder_Commit(p)
    \/ HandleWebhook_Mark(p) \/ HandleWebhook_Item(p)
    \/ HandleWebhook_Cart(p) \/ HandleWebhook_Commit(p)

NextDelivery ==
    \E p \in Handlers :
        \/ \E u \in Buyers : CreateOrder_Start(p, u)
        \/ \E reference \in Refs : Redeliver(p, reference)
        \/ HandlerStep(p)

SpecDelivery ==
    /\ Init /\ [][NextDelivery]_vars
    /\ \A p \in Handlers : WF_vars(HandlerStep(p))
    /\ \A reference \in Refs : SF_vars(\E p \in Handlers : Redeliver(p, reference))

Next ==
    \/ Catalog
    \/ \E p \in Handlers :
          \/ CreateOrder(p)
          \/ VerifyPayment(p, VerifyResults, GatewayResponses)
          \/ HandleWebhook(p, AllWebhookBodies)
          \/ CancelOrder(p)
          \/ UpdateOrderStatus(p)
          \/ InitiateRefund(p)
          \/ UpdateInventory(p)
          \/ InitializePayment(p)

Spec == Init /\ [][Next]_vars

\* ------------------------------------------------------------------ properties
\* Quantity of product d on the lines of an order.
LineQuantity(order, d) ==
    SumSeq([k \in 1..Len(order.items) |->
              IF order.items[k].productId = d THEN order.items[k].quantity ELSE 0])

\* Number of timeline entries of an order with the given status.
Entries(order, status) ==
    Cardinality({k \in 1..Len(order.timeline) : order.timeline[k].status = status})

Quiescent == \A p \in Handlers : h[p].pc = "idle"

\* C1 - No overselling: whatever the interleaving of concurrent checkouts, the
\* quantity reserved of a product never exceeds the quantity on hand (the N
\* units that were available); an attempt beyond that fails and reserves
\* nothing.
C1_NoOverselling ==
    \A d \in Products : products[d].reserved <= products[d].quantity

\* A request (op, input, reference) arrives in this step: it is either taken up
\* by a handler or answered at once.
Arrived(op, input, reference) ==
    /\ calls' = calls + 1
    /\ \/ \E p \in Handlers :
            /\ h[p].pc = "idle" /\ h'[p].pc # "idle"
            /\ h'[p].op = op /\ h'[p].input = input /\ h'[p].reference = reference
       \/ /\ h' = h
          /\ res'.op = op /\ res'.input = input /\ res'.reference = reference

Stored == <<products, carts, orders>>

C3_RaceSettlesOnce ==
    /\ \A p, q \in Handlers :
          /\ h[p].op = "verifyPayment" /\ h[p].input = "success"
          /\ h[q].op = "handleWebhook" /\ h[q].input = "charge.success"
          /\ h[p].oid # 0 /\ h[p].oid = h[q].oid
          => Entries(orders[h[p].oid], "confirmed") <= 1
    /\ \A d \in Products :
          InitOnHand - products[d].quantity
              <= SumSeq([k \in 1..Len(orders) |-> LineQuantity(orders[k], d)])

\* C4 - The settlement processor never reverts a terminal payment outcome: a
\* completed payment is never changed to failed, and a failed payment is never
\* changed to completed.
C4_NeverReverts ==
    [][ \A k \in 1..Len(orders) :
          /\ orders[k].payment.status = "completed"
                => orders'[k].payment.status # "failed"
          /\ orders[k].payment.status = "failed"
                => orders'[k].payment.status # "completed"
      ]_vars

\* C5 - verifyPayment with a non-success gateway result, for an order it found
\* already failed, is a no-op: it writes nothing to the order (no second
\* 'failed' timeline entry) and releases nothing.
C5_VerifyFailureIdempotent ==
    [][ \A p \in Handlers :
          /\ h[p].op = "verifyPayment" /\ h[p].input # "success"
          /\ h[p].pc = "vp_mark" /\ h[p].order.payment.status = "failed"
          /\ h'[p] # h[p]
          => orders' = orders
      ]_vars

\* C6 - In every reachable state every product has 0 <= reserved <= onHand.
C6_ReservedWithinOnHand ==
    \A d \in Products :
        0 <= products[d].reserved /\ products[d].reserved <= products[d].quantity

\* C7 - Reservation/release balance: an order that is cancelled or failed, was
\* never paid, and has no request in progress has had exactly its line
\* quantities released from each product's reserved counter.
C7_ReleaseBalance ==
    \A k \in 1..Len(orders) :
        /\ orders[k].status \in {"cancelled", "failed"}
        /\ orders[k].payment.transactionId = NoTransactionId
        /\ \A p \in Handlers : h[p].oid # k
        => \A d \in Products : released[k][d] = LineQuantity(orders[k], d)

\* C8 - Atomic checkout: no step of a createOrder request changes a product or
\* the orders, except the commit that answers 201; so a request that fails after
\* reserving lines leaves every reserved counter as it was and creates no order.
C8_AtomicCheckout ==
    [][ \A p \in Handlers :
          /\ h[p].op = "createOrder" /\ h'[p] # h[p]
          /\ ~(h'[p].pc = "idle" /\ res'.status = 201)
          => products' = products /\ orders' = orders
      ]_vars

C8_Witness ==
    /\ res.op = "createOrder" /\ res.status \in {400, 500} /\ res.lines >= 1
    /\ h[res.handler].pc = "idle"
    /\ \A d \in Products : products[d].reserved = 0
    /\ orders = <<>>

\* C9 - Atomic settlement: when no request is in progress, every payment
\* outcome recorded on an order has its inventory effect and vice versa: each
\* 'confirmed' entry deducted the order's lines from onHand and reserved, each
\* 'failed' entry released them.
C9_AtomicSettlement ==
    Quiescent =>
      \A d \in Products :
        /\ products[d].quantity = InitOnHand -
              SumSeq([k \in 1..Len(orders) |->
                 LineQuantity(orders[k], d) * Entries(orders[k], "confirmed")])
        /\ products[d].reserved =
              SumSeq([k \in 1..Len(orders) |->
                 LineQuantity(orders[k], d) *
                   (1 - Entries(orders[k], "confirmed") - Entries(orders[k], "failed"))])

\* C10 - Pricing invariant: every order has subtotal = sum of price x quantity
\* over its lines, shipping 0 from 10000 up and 1500 below, tax 0, discount 0
\* and total = subtotal + shipping + tax - discount; the line prices are the
\* catalog prices checkout read, and they are what is inserted.
C10_PricingInvariant ==
    /\ \A k \in 1..Len(orders) :
          LET o == orders[k]
              sub == SumSeq([i \in 1..Len(o.items) |-> o.items[i].price * o.items[i].quantity])
          IN  /\ o.pricing.subtotal = sub
              /\ o.pricing.shipping = IF sub >= 10000 THEN 0 ELSE 1500
              /\ o.pricing.tax = 0
              /\ o.pricing.discount = 0
              /\ o.pricing.total = sub + o.pricing.shipping + o.pricing.tax - o.pricing.discount
    /\ \A p \in Handlers :
          h[p].op = "createOrder" =>
            /\ \A i \in 1..Len(h[p].orderItems) :
                  /\ h[p].orderItems[i].price = h[p].cart[i].product.price
                  /\ h[p].orderItems[i].quantity = h[p].cart[i].quantity
            /\ h[p].pc = "co_commit" =>
                  /\ session[p].inserted = <<h[p].order>>
                  /\ h[p].order.items = h[p].orderItems

C10_Witness ==
    \E k \in 1..Len(orders) :
        /\ Len(orders[k].items) = 2
        /\ orders[k].pricing.shipping = 0
        /\ orders[k].pricing.total = orders[k].pricing.subtotal
        /\ \E j \in 1..Len(orders) : orders[j].pricing.shipping = 1500

\* A settlement handler applying a success (failure) outcome.
Succeeding(p) == h[p].input \in {"success", "charge.success"}

Failing(p) == h[p].input \in {"failed", "abandoned", "charge.failed"}

Marking(p) == h[p].pc \in {"vp_mark", "wh_mark"} /\ h'[p] # h[p]

Committing(p) == h[p].pc \in {"vp_commit", "wh_commit"} /\ h'[p].pc = "idle"

PendingOrder(order) == order.status = "pending" /\ order.payment.status = "pending"

\* C11 - Success transition: marking a pending order paid sets payment.status =
\* completed, payment.transactionId and payment.paidAt, sets status = confirmed
\* and appends one 'confirmed' entry; the commit that ends the transition
\* decreases, for every order line, the product's quantity on hand and its
\* reserved counter by the line quantity, and empties the buyer's cart.
C11_SuccessTransition ==
    [][ \A p \in Handlers :
          LET k == h[p].oid IN
          /\ Marking(p) /\ Succeeding(p) /\ PendingOrder(orders[k])
                => /\ orders'[k].payment.status = "completed"
                   /\ orders'[k].payment.transactionId = GatewayId
                   /\ orders'[k].payment.paidAt
                   /\ orders'[k].status = "confirmed"
                   /\ orders'[k].timeline =
                         Append(orders[k].timeline,
                                [status |-> "confirmed", note |-> "Payment confirmed"])
          /\ Committing(p) /\ Succeeding(p)
                => /\ \A d \in Products :
                        /\ products'[d].quantity =
                              products[d].quantity - LineQuantity(orders[k], d)
                        /\ products'[d].reserved =
                              products[d].reserved - LineQuantity(orders[k], d)
                   /\ carts'[orders[k].userId] = <<>>
      ]_vars

C11_Witness ==
    /\ res.op = "verifyPayment" /\ res.status = 200 /\ res.error = "none"
    /\ res.oid \in 1..Len(orders)
    /\ orders[res.oid].status = "confirmed"
    /\ orders[res.oid].payment.status = "completed"
    /\ Len(orders[res.oid].timeline) = 2
    /\ LineQuantity(orders[res.oid], "P1") = MaxQty
    /\ products["P1"].quantity = InitOnHand - MaxQty
    /\ products["P1"].reserved = 0
    /\ carts[orders[res.oid].userId] = <<>>

\* C12 - Failure transition: marking a pending order failed sets status =
\* failed and payment.status = failed and appends one 'failed' entry whose note
\* is the gateway's failure reason when it sent one; the commit that ends the
\* transition decreases, for every order line, the product's reserved counter
\* by the line quantity and leaves every quantity on hand unchanged.
C12_FailureTransition ==
    [][ \A p \in Handlers :
          LET k == h[p].oid IN
          /\ Marking(p) /\ Failing(p) /\ PendingOrder(orders[k])
                => /\ orders'[k].payment.status = "failed"
                   /\ orders'[k].status = "failed"
                   /\ Len(orders'[k].timeline) = Len(orders[k].timeline) + 1
                   /\ SubSeq(orders'[k].timeline, 1, Len(orders[k].timeline)) =
                         orders[k].timeline
                   /\ orders'[k].timeline[Len(orders'[k].timeline)].status = "failed"
                   /\ h[p].reason # ""
                         => orders'[k].timeline[Len(orders'[k].timeline)].note = h[p].reason
          /\ Committing(p) /\ Failing(p)
                => \A d \in Products :
                        /\ products'[d].quantity = products[d].quantity
                        /\ products'[d].reserved =
                              products[d].reserved - LineQuantity(orders[k], d)
      ]_vars

C12_Witness ==
    /\ res.op = "handleWebhook" /\ res.input = "charge.failed" /\ res.error = "none"
    /\ res.oid \in 1..Len(orders)
    /\ orders[res.oid].status = "failed"
    /\ orders[res.oid].payment.status = "failed"
    /\ Len(orders[res.oid].timeline) = 2
    /\ orders[res.oid].timeline[2].note = "Declined"
    /\ LineQuantity(orders[res.oid], "P1") = MaxQty
    /\ products["P1"].quantity = InitOnHand
    /\ products["P1"].reserved = 0

\* The step in which handler p's createOrder commits and answers 201.
Created(p) ==
    /\ h[p].op = "createOrder" /\ h'[p].pc = "idle"
    /\ res'.handler = p /\ res'.status = 201

\* C13 - A successful createOrder inserts one order with status = pending,
\* payment.status = pending, a payment reference and a timeline of exactly one
\* entry {pending, "Order created"}; its lines are the cart's lines, and the
\* commit increases each line's product reserved counter by exactly the line
\* quantity and leaves the quantity on hand unchanged.
C13_CreateOrderResult ==
    [][ \A p \in Handlers :
          Created(p) =>
            /\ Len(orders') = Len(orders) + 1
            /\ SubSeq(orders', 1, Len(orders)) = orders
            /\ LET o == orders'[Len(orders')] IN
                /\ o.status = "pending"
                /\ o.payment.status = "pending"
                /\ o.payment.reference \in Refs
                /\ o.payment.reference = res'.reference
                /\ o.timeline = <<[status |-> "pending", note |-> "Order created"]>>
                /\ Len(o.items) = Len(h[p].cart)
                /\ \A i \in 1..Len(o.items) :
                      /\ o.items[i].productId = h[p].cart[i].productId
                      /\ o.items[i].quantity = h[p].cart[i].quantity
                /\ \A d \in Products :
                      /\ products'[d].reserved = products[d].reserved + LineQuantity(o, d)
                      /\ products'[d].quantity = products[d].quantity
      ]_vars

C13_Witness ==
    /\ res.op = "createOrder" /\ res.status = 201
    /\ Len(orders) = 1
    /\ Len(orders[1].items) = 2
    /\ Len(orders[1].timeline) = 1
    /\ \A d \in Products :
          /\ LineQuantity(orders[1], d) > 0
          /\ products[d].reserved = LineQuantity(orders[1], d)
          /\ products[d].quantity = InitOnHand

LastEntry(order) == order.timeline[Len(order.timeline)]

\* C14 - The timeline is append-only and every status transition appends
\* exactly one entry: a new order has one entry, a step that changes a stored
\* order keeps its earlier entries as they were and adds exactly one, and the
\* last entry's status is the order's current status.
C14_TimelineAppendOnly ==
    [][ \A k \in 1..Len(orders') :
          /\ LastEntry(orders'[k]).status = orders'[k].status
          /\ IF k > Len(orders)
             THEN Len(orders'[k].timeline) = 1
             ELSE /\ SubSeq(orders'[k].timeline, 1, Len(orders[k].timeline)) =
                        orders[k].timeline
                  /\ orders'[k] # orders[k] =>
                        Len(orders'[k].timeline) = Len(orders[k].timeline) + 1
      ]_vars

GatewaySignature(raw) == Hmac(PAYSTACK_SECRET_KEY, raw)

\* C17 - A webhook whose signature is not the HMAC-SHA512 of its payload under
\* the shared secret is answered 401 (invalid signature) before any event
\* handling: no handler takes it up and no order, product or cart changes,
\* whatever event type and reference the body carries.
C17_InvalidSignatureRejected ==
    [][ calls' # calls =>
          \A p \in Handlers, raw \in AllWebhookBodies :
            \A signature \in Signatures(raw) :
               HandleWebhook_Start(p, raw, signature) /\ signature # GatewaySignature(raw)
                 => /\ res'.status = 401 /\ res'.error = "InvalidSignature"
                    /\ h' = h
                    /\ Stored' = Stored
      ]_vars

\* C18 - Every webhook with a valid signature is answered 200, whatever
\* happens inside: known or unknown event type, known or unknown reference,
\* duplicate event, or an error thrown inside the handler.
C18_ValidSignatureAnswered200 ==
    [][ \A p \in Handlers :
          /\ calls' # calls =>
                \A raw \in AllWebhookBodies :
                   HandleWebhook_Start(p, raw, GatewaySignature(raw)) /\ h'[p].pc = "idle"
                     => res'.status = 200
          /\ h[p].op = "handleWebhook" /\ h'[p].pc = "idle"
                  => res'.handler = p /\ res'.status = 200
      ]_vars

ReserveContract(d, quantity) ==
    ReserveInventory(d, quantity) =>
        IF availableQuantity(products[d]) < quantity
        THEN res'.error = "InsufficientStock" /\ Stored' = Stored
        ELSE /\ products' = [products EXCEPT ![d].reserved = @ + quantity]
             /\ carts' = carts /\ orders' = orders

\* The reservation step of handler p's createOrder: a line whose product has
\* less available than the line asks for ends the request with
\* InsufficientStock and no change; the commit adds each line's quantity to
\* its product's reserved counter and leaves the quantity on hand alone.
CheckoutReserves(p) ==
    /\ h[p].pc = "co_item" /\ h'[p] # h[p] =>
          LET item == h[p].cart[h[p].i] IN
          availableQuantity(products[item.productId]) < item.quantity =>
             /\ h'[p].pc = "idle"
             /\ res'.handler = p /\ res'.error = "InsufficientStock"
             /\ Stored' = Stored
    /\ Created(p) =>
          \A d \in Products :
             /\ products'[d].reserved =
                   products[d].reserved + LineQuantity(orders'[Len(orders')], d)
             /\ products'[d].quantity = products[d].quantity

\* C20 - reserve(productId, qty) fails with InsufficientStock and changes
\* nothing when available < qty, and otherwise increases reserved by exactly
\* qty and leaves the quantity on hand unchanged, both as the model method
\* reserveInventory and as the reservation step of createOrder.
C20_ReserveExactly ==
    [][ /\ \A d \in Products, quantity \in 1..MaxQty : ReserveContract(d, quantity)
        /\ \A p \in Handlers : CheckoutReserves(p) ]_vars


\* C21 - deduct(productId, qty) fails with InsufficientOnHand and changes
\* nothing when the quantity on hand is below qty, and otherwise lowers the
\* quantity on hand by qty and sets reserved to max(0, reserved - qty): as the
\* model method deductInventory, and as the deduction a success settlement
\* commits for the lines of its order, which never leaves a quantity on hand
\* below zero.
C21_DeductContract ==
    [][ /\ \A d \in Products, quantity \in 1..MaxQty :
              DeductInventory(d, quantity) =>
                 IF products[d].quantity < quantity
                 THEN res'.error = "InsufficientOnHand" /\ Stored' = Stored
                 ELSE /\ products' = [products EXCEPT
                             ![d].quantity = @ - quantity,
                             ![d].reserved = Max(0, @ - quantity)]
                      /\ carts' = carts /\ orders' = orders
        /\ \A p \in Handlers :
              Committing(p) /\ Succeeding(p) =>
                 \A d \in Products :
                    LET quantity == LineQuantity(h[p].order, d) IN
                    IF products[d].quantity < quantity
                    THEN products' = products /\ res'.status # 200
                    ELSE /\ products'[d].quantity = products[d].quantity - quantity
                         /\ products'[d].reserved = Max(0, products[d].reserved - quantity)
      ]_vars


\* C22 - release(productId, qty) sets reserved to max(0, reserved - qty): as
\* the model method releaseInventory, and as the release that a failure
\* settlement or a cancelOrder commits for the lines of its order, which never
\* leaves a reserved counter below zero.
C22_ReleaseClamps ==
    [][ /\ \A d \in Products, quantity \in 1..MaxQty :
              ReleaseInventory(d, quantity) =>
                 /\ products' = [products EXCEPT ![d].reserved = Max(0, @ - quantity)]
                 /\ carts' = carts /\ orders' = orders
        /\ \A p \in Handlers :
              \/ Committing(p) /\ Failing(p)
              \/ h[p].pc = "cn_commit" /\ h'[p].pc = "idle"
              => \A d \in Products :
                    /\ products'[d].reserved =
                          Max(0, products[d].reserved - LineQuantity(h[p].order, d))
                    /\ products'[d].quantity = products[d].quantity
      ]_vars


\* C23 - Checkout validation: createOrder answers EmptyCart for a cart without
\* lines, ProductUnavailable for a line whose product it read as inactive and
\* InsufficientStock for a line whose product it read with less available than
\* the line's quantity; a request that ends with one of the three creates no
\* order and changes no inventory counter; and an order is created only when
\* every line's product has at least the line's quantity available in the
\* transaction that creates it.
C23_CheckoutValidation ==
    [][ \A p \in Handlers :
          /\ \A u \in Users :
                CreateOrder_Start(p, u) /\ carts[u] = <<>> =>
                   res'.status = 400 /\ res'.error = "EmptyCart" /\ h' = h
          /\ /\ res'.handler = p /\ res'.op = "createOrder" /\ res' # res
             /\ res'.error \in {"EmptyCart", "ProductUnavailable", "InsufficientStock"}
             => Stored' = Stored /\ h'[p].pc = "idle" /\ session'[p] = NoSession
          /\ h[p].pc = "co_item" /\ h'[p] # h[p] =>
                LET item == h[p].cart[h[p].i] IN
                /\ ~item.product.isActive =>
                      /\ res'.handler = p /\ res'.error = "ProductUnavailable"
                      /\ h'[p].pc = "idle"
                /\ item.product.isActive
                   /\ availableQuantity(item.product) < item.quantity =>
                      /\ res'.handler = p /\ res'.error = "InsufficientStock"
                      /\ h'[p].pc = "idle"
          /\ Created(p) =>
                \A d \in Products :
                   availableQuantity(products[d]) >= LineQuantity(orders'[Len(orders')], d)
      ]_vars


\* C24 - Refund: initiateRefund goes on to the gateway only for an order whose
\* payment.status is completed and is answered 400 otherwise; when the gateway
\* refund succeeds the order gets payment.status = refunded and exactly one
\* appended 'cancelled' timeline entry carrying the refund reason; when the
\* gateway call fails no order changes and the answer is 200 with the manual
\* instructions.
C24_Refund ==
    [][ \A p \in Handlers :
          /\ \A orderId \in 1..MaxOrders :
                InitiateRefund_Start(p, orderId) /\ orderId <= Len(orders) =>
                   IF orders[orderId].payment.status = "completed"
                   THEN h'[p].pc = "rf_refund" /\ h'[p].oid = orderId
                   ELSE res'.status = 400 /\ res'.error = "CannotRefundUnpaid" /\ h' = h
          /\ h[p].pc = "rf_refund" /\ h'[p].pc = "idle" =>
                LET k == h[p].oid IN
                /\ res'.handler = p /\ res'.status = 200
                /\ IF res'.error = "none"
                   THEN /\ orders'[k].payment.status = "refunded"
                        /\ orders'[k].timeline =
                              Append(orders[k].timeline,
                                     [status |-> "cancelled", note |-> "Refunded: reason"])
                        /\ \A j \in 1..Len(orders) : j # k => orders'[j] = orders[j]
                   ELSE res'.error = "ManualRefund" /\ orders' = orders
                /\ products' = products /\ carts' = carts
      ]_vars

C24_Witness ==
    /\ res.op = "initiateRefund" /\ res.status = 200 /\ res.error = "none"
    /\ res.oid \in 1..Len(orders)
    /\ orders[res.oid].payment.status = "refunded"
    /\ Len(orders[res.oid].timeline) = 3
    /\ LastEntry(orders[res.oid]) = [status |-> "cancelled", note |-> "Refunded: reason"]


\* C25 - Every stored order has an orderNumber no other stored order has, and
\* the count-then-format generation never hands a checkout the sequence number
\* it has handed to another checkout whose order is being inserted.
C25_OrderNumberUnique ==
    [][ /\ \A j, k \in 1..Len(orders') :
              j # k => orders'[j].orderNumber # orders'[k].orderNumber
        /\ \A p \in Handlers :
              h[p].pc = "co_create" /\ h'[p] # h[p] =>
                 LET orderNumber ==
                        preSave(NewOrder(h[p].userId, h[p].orderItems,
                                         Pricing(h[p].subtotal), "none"),
                                Len(orders)).orderNumber
                 IN
                 \A q \in Handlers \ {p} :
                    \A k \in 1..Len(session[q].inserted) :
                       session[q].inserted[k].orderNumber # orderNumber
      ]_vars


\* C26 - Every stored order carries a payment reference from the step that
\* creates it, no later step changes it, and no two stored orders share one,
\* so a reference names at most one order.
C26_PaymentReference ==
    [][ \A k \in 1..Len(orders') :
          /\ orders'[k].payment.reference \in Refs
          /\ k <= Len(orders) =>
                orders'[k].payment.reference = orders[k].payment.reference
          /\ \A j \in 1..Len(orders') :
                j # k => orders'[j].payment.reference # orders'[k].payment.reference
      ]_vars

C26_Witness ==
    /\ Len(orders) = 2
    /\ orders[1].payment.reference # orders[2].payment.reference
    /\ orders[1].payment.status = "completed"
    /\ orders[1].payment.reference = "R2"
    /\ FindByReference("R1") = 2
    /\ Quiescent


C28_CartOnlyCleared ==
    [][ /\ carts' # carts =>
              \E p \in Handlers :
                 /\ Committing(p) /\ Succeeding(p)
                 /\ carts' = [carts EXCEPT ![h[p].order.userId] = <<>>]
        /\ \A p \in Handlers :
              Committing(p) /\ Succeeding(p) /\ res'.status = 200 =>
                 carts' = [carts EXCEPT ![h[p].order.userId] = <<>>]
      ]_vars

C28_Witness ==
    /\ res.op = "createOrder" /\ res.status = 400 /\ res.error = "EmptyCart"
    /\ carts["u1"] = <<>>
    /\ Len(orders) = 1
    /\ orders[1].userId = "u1"
    /\ orders[1].payment.status = "completed"


C30_Independent ==
    /\ Quiescent
    /\ \A k \in 1..Len(orders) : Len(orders[k].timeline) <= 2
    => \A d \in Products :
          /\ products[d].quantity = InitOnHand -
                SumSeq([k \in 1..Len(orders) |->
                   IF orders[k].status = "confirmed"
                   THEN LineQuantity(orders[k], d) ELSE 0])
          /\ products[d].reserved =
                SumSeq([k \in 1..Len(orders) |->
                   IF orders[k].status = "pending"
                   THEN LineQuantity(orders[k], d) ELSE 0])

\* C31 - Reservation conservation: when no request is in progress, each
\* product's reserved counter equals the sum of that product's line quantities
\* over the orders whose status is pending.
C31_ReservationConservation ==
    Quiescent =>
      \A d \in Products :
        products[d].reserved =
            SumSeq([k \in 1..Len(orders) |->
               IF PendingOrder(orders[k]) THEN LineQuantity(orders[k], d) ELSE 0])

\* C32 - A success settlement (successful verify or charge.success webhook)
\* that loaded an order whose status was already cancelled is a no-op: no step
\* of the request changes the order or any product's onHand or reserved counter.
C32_SuccessAfterCancel ==
    [][ \A p \in Handlers :
          /\ h[p].op \in {"verifyPayment", "handleWebhook"}
          /\ Succeeding(p) /\ h[p].order.status = "cancelled"
          /\ h'[p] # h[p]
          => /\ orders'[h[p].oid] = orders[h[p].oid]
             /\ products' = products
      ]_vars

\* C33 - A cancelOrder request and a settlement of the same order that are in
\* progress together, each having loaded the order before the other wrote it:
\* only one of them takes effect on the order. The stored order never carries
\* both a 'cancelled' entry and a 'confirmed' or 'failed' entry, it is never
\* cancelled with payment.status completed, and its lines are never released
\* more than once.
C33_CancelOrSettle ==
    \A p, q \in Handlers :
        /\ h[p].op = "cancelOrder" /\ h[q].op \in {"verifyPayment", "handleWebhook"}
        /\ h[p].oid # 0 /\ h[p].oid = h[q].oid
        /\ Entries(h[q].order, "cancelled") = 0
        /\ Entries(h[p].order, "confirmed") + Entries(h[p].order, "failed") = 0
        => LET o == orders[h[p].oid] IN
           /\ ~ /\ Entries(o, "cancelled") >= 1
                 /\ Entries(o, "confirmed") + Entries(o, "failed") >= 1
           /\ ~(o.status = "cancelled" /\ o.payment.status = "completed")
           /\ \A d \in Products : released[h[p].oid][d] <= LineQuantity(o, d)

\* C34 - In every reachable state the pair (payment.status, status) of every
\* order is pending/pending, pending/cancelled, completed/confirmed,
\* completed/processing, completed/shipped, completed/delivered, failed/failed
\* or refunded/cancelled, and payment.transactionId and payment.paidAt are set
\* exactly when payment.status is completed or refunded.
C34_StatusPairs ==
    \A k \in 1..Len(orders) :
        LET o == orders[k] IN
        /\ \/ o.payment.status = "pending" /\ o.status \in {"pending", "cancelled"}
           \/ /\ o.payment.status = "completed"
              /\ o.status \in {"confirmed", "processing", "shipped", "delivered"}
           \/ o.payment.status = "failed" /\ o.status = "failed"
           \/ o.payment.status = "refunded" /\ o.status = "cancelled"
        /\ (o.payment.transactionId # NoTransactionId)
              <=> o.payment.status \in {"completed", "refunded"}
        /\ o.payment.paidAt <=> o.payment.status \in {"completed", "refunded"}

\* C35 - verifyPayment applies the failure transition for every gateway status
\* other than 'success', 'abandoned' included: the request is not turned away on
\* arrival when its order is stored and not completed, it marks a pending order
\* failed/failed, and its commit answers 400 and releases the order's lines
\* from every reserved counter, leaving the quantities on hand.
C35_VerifyNonSuccessFails ==
    [][ \A p \in Handlers :
          LET k == h[p].oid
              failing == h[p].op = "verifyPayment" /\ h[p].input \in {"failed", "abandoned"}
              turnedAway == /\ calls' # calls /\ res' # res /\ res'.handler = p
                            /\ res'.op = "verifyPayment"
                            /\ res'.input \in {"failed", "abandoned"}
          IN
          /\ turnedAway
                => \/ FindByReference(res'.reference) = 0
                   \/ orders[FindByReference(res'.reference)].payment.status = "completed"
          /\ (failing /\ Marking(p) /\ PendingOrder(orders[k]))
                => /\ orders'[k].payment.status = "failed"
                   /\ orders'[k].status = "failed"
          /\ (failing /\ Committing(p))
                => /\ res'.status = 400 /\ res'.error = "PaymentFailed"
                   /\ \A d \in Products :
                        /\ products'[d].quantity = products[d].quantity
                        /\ products'[d].reserved =
                              products[d].reserved - LineQuantity(h[p].order, d)
      ]_vars

C35_Witness ==
    /\ res.op = "verifyPayment" /\ res.input = "abandoned"
    /\ res.status = 400 /\ res.error = "PaymentFailed"
    /\ res.oid \in 1..Len(orders)
    /\ orders[res.oid].status = "failed"
    /\ orders[res.oid].payment.status = "failed"
    /\ Len(orders[res.oid].timeline) = 2
    /\ LineQuantity(orders[res.oid], "P1") = MaxQty
    /\ products["P1"].quantity = InitOnHand
    /\ products["P1"].reserved = 0

\* C36 - At-least-once delivery reaches a consistent outcome: when the gateway
\* keeps delivering charge.success for an order that is pending, the order is
\* eventually confirmed with its lines deducted: every quantity on hand is the
\* initial one less the lines of the confirmed orders.
C36_DeliveryConverges ==
    \A k \in 1..MaxOrders :
        (Len(orders) >= k /\ PendingOrder(orders[k]))
           ~> /\ Len(orders) >= k
              /\ orders[k].status = "confirmed"
              /\ \A d \in Products :
                    products[d].quantity = InitOnHand -
                       SumSeq([j \in 1..Len(orders) |->
                          IF orders[j].status = "confirmed"
                          THEN LineQuantity(orders[j], d) ELSE 0])

\* C37 - The admin's updateOrderStatus changes only the order's status and
\* appends one timeline entry with the requested status: payment, items,
\* pricing, every other order, every product and every cart stay as they are.
\* A change of an order's payment.status is always a step of verifyPayment,
\* handleWebhook or initiateRefund.
C37_AdminStatusFrame ==
    [][ /\ \A p \in Handlers :
             h[p].op = "updateOrderStatus" /\ h'[p] # h[p] =>
                LET k == h[p].oid IN
                /\ orders' = [orders EXCEPT
                                ![k].status = orders'[k].status,
                                ![k].timeline = orders'[k].timeline]
                /\ orders'[k].status \in {h[p].input, orders[k].status}
                /\ orders'[k].timeline =
                      Append(orders[k].timeline,
                             [status |-> h[p].input, note |-> "Updated by admin"])
                /\ products' = products /\ carts' = carts
        /\ \A k \in 1..Len(orders) :
             orders'[k].payment.status # orders[k].payment.status =>
                \E p \in Handlers :
                   /\ h[p].op \in {"verifyPayment", "handleWebhook", "initiateRefund"}
                   /\ h[p].oid = k /\ h'[p] # h[p]
      ]_vars

C37_Witness ==
    /\ res.op = "updateOrderStatus" /\ res.status = 200 /\ res.input = "shipped"
    /\ res.oid \in 1..Len(orders)
    /\ orders[res.oid].status = "shipped"
    /\ orders[res.oid].payment.status = "completed"
    /\ orders[res.oid].payment.transactionId = GatewayId
    /\ Len(orders[res.oid].timeline) = 3
    /\ orders[res.oid].timeline[3] = [status |-> "shipped", note |-> "Updated by admin"]
    /\ products["P1"].reserved = 0

\* C38 - A refund is applied at most once per order: initiateRefund calls the
\* gateway only for an order that is stored as completed (never again once a
\* refund has succeeded), and never while another initiateRefund request for
\* the same order is about to call it.
C38_RefundOnce ==
    [][ \A p \in Handlers :
          h[p].pc = "rf_refund" /\ h'[p] # h[p] =>
             /\ orders[h[p].oid].payment.status = "completed"
             /\ \A q \in Handlers \ {p} :
                   ~(h[q].pc = "rf_refund" /\ h[q].oid = h[p].oid)
      ]_vars

\* C39 - initializePayment contacts the gateway only for an order that belongs
\* to the caller and that it found not paid and neither cancelled nor failed,
\* and it passes the order's stored payment reference and total; a request it
\* rejects contacts nobody; no step of it changes an order, a product or a cart.
C39_InitializePayment ==
    [][ \A p \in Handlers :
          LET contacted == res'.sent # NoSent
              k == res'.oid
          IN
          /\ (res' # res /\ res'.handler = p /\ res'.op = "initializePayment")
                => /\ Stored' = Stored
                   /\ contacted <=> res'.status \in {200, 500}
                   /\ contacted =>
                        /\ k \in 1..Len(orders)
                        /\ orders[k].userId = h[p].userId
                        /\ h[p].order.payment.status # "completed"
                        /\ h[p].order.status \notin {"cancelled", "failed"}
                        /\ res'.sent = [reference |-> orders[k].payment.reference,
                                        amount |-> 100 * orders[k].pricing.total]
          /\ (h'[p].op = "initializePayment" /\ h[p].pc = "idle")
                => /\ Stored' = Stored
                   /\ orders[h'[p].oid].userId = h'[p].userId
                   /\ orders[h'[p].oid].payment.status # "completed"
                   /\ orders[h'[p].oid].status \notin {"cancelled", "failed"}
      ]_vars

C39_Witness ==
    /\ res.op = "initializePayment" /\ res.status = 200
    /\ res.oid \in 1..Len(orders)
    /\ PendingOrder(orders[res.oid])
    /\ res.sent = [reference |-> orders[res.oid].payment.reference, amount |-> 100 * (1000 * MaxQty + FlatShipping)]
    /\ products["P1"].reserved = MaxQty

====
